---- MODULE Spec2Model ----
(***************************************************************************)
(* A model of StreamingDataExporter (src/data_exporter_streaming.py): the  *)
(* chunked, append-only writer of one run directory, as driven by the      *)
(* pipelines (src/pipeline.py, src/parallel_pipeline.py).                  *)
(*                                                                         *)
(* add_author is modelled statement by statement: each worker has a        *)
(* program counter pc[t] that walks through the body of add_author and of  *)
(* _rotate_publications_file, so that the states in the middle of a call   *)
(* (a run cut short, two overlapping calls) are states of the model.       *)
(* save_stats and close are single steps: the pipelines call them from the *)
(* coordinating thread when no add_author call is running.                 *)
(***************************************************************************)
EXTENDS Integers, Sequences, FiniteSets, TLC

\* ------------------------------------------------------------- bounds
MaxChunkSize == 2   \* chunk_size ranges over 1..MaxChunkSize
MaxCalls == 2       \* add_author calls in one run
MaxPubs == 2        \* publications handed to one add_author call
MaxClock == 2       \* readings of datetime.now() range over 0..MaxClock
NumAuthors == 2     \* author ids 1..NumAuthors
NumWorkers == 2     \* threads that may call add_author concurrently
MaxOverlapPubs == 1 \* publications handed to one of several overlapping calls
LineBytes == 6000   \* bytes of one record line on disk
MaxQueryPubs == 2   \* lines in the chunk files of a run directory that is queried
MaxLogLines == 2    \* lines in the authors file of a run directory that is queried
MaxYear == 1        \* publication years 0..MaxYear (0: the API gave no year)
MaxRunChunks == 3   \* chunks of a small run whose files are discovered
MaxExtraPubs == 2   \* publications beyond one per author in a run of many authors
MaxRuns == 3        \* run directories under the output root a RunManager lists
MaxBatch == 2       \* authors in one batch of the parallel pipeline

Authors == 1..NumAuthors
Workers == 1..NumWorkers
\* The coordinating thread of the pipelines, the only caller of add_author there.
Coordinator == 1

NoTime == -1
TicksPerSecond == 2 \* clock readings in one second of wall-clock time
\* The content of a file that does not exist.
NoFile == [exists |-> FALSE]

Range(seq) == {seq[i] : i \in 1..Len(seq)}

Max(a, b) == IF a >= b THEN a ELSE b

CeilDiv(a, b) == (a + b - 1) \div b

VARIABLES
    \* configuration of the writer (constructor arguments)
    chunk_size, compress,
    \* in-memory state of the writer
    current_chunk, records_in_chunk, publications_file_path, publication_files,
    authors_file, publications_file, processing_stats,
    \* the run directory
    authors_log, chunk_files, stats_file,
    \* the wall clock: the latest reading of datetime.now()
    now,
    \* add_author calls: per worker, the position in the body and the locals
    pc, author_record, publications, pub_idx,
    \* history: every publication record handed to add_author so far, in order;
    \* whether an add_author call began after close(); the number of calls made
    submitted, late, calls,
    \* history: whether save_stats ran again on a run that was already finalized
    resaved,
    \* another writer constructed under the same output root
    other_run,
    \* a DatasetQuery session on a run directory: whether the directory has an
    \* authors file, the attributes set by the constructor, the last operation
    \* with its outcome, and the number of chunk files a scan has opened
    authors_exists, q_authors_file, publication_chunks, query, visit,
    \* the outcome of the same operation in an earlier session
    twin,
    \* the output root a RunManager lists: the run directories with their
    \* sidecars; the last operation of the RunManager with its outcome
    output_root, listing,
    \* a batch of the parallel pipeline
    pipeline

writer == <<current_chunk, records_in_chunk, publications_file_path,
            publication_files, authors_file, publications_file, processing_stats>>
disk == <<authors_log, chunk_files, stats_file>>
locals == <<pc, author_record, publications, pub_idx>>
history == <<submitted, late, calls, resaved>>
reader == <<authors_exists, q_authors_file, publication_chunks, query, visit>>
registry == <<output_root, listing>>
beyond == <<other_run, registry, twin, pipeline>>
outside == <<beyond, reader>>
vars == <<chunk_size, compress, writer, disk, now, locals, history, outside>>

\* ------------------------------------------------------------- paths
RECURSIVE Digits(_)
Digits(k) == IF k < 10 THEN <<k>> ELSE Append(Digits(k \div 10), k % 10)

RECURSIVE ZeroPad(_, _)
ZeroPad(s, width) == IF Len(s) >= width THEN s ELSE ZeroPad(<<0>> \o s, width)

\* ".jsonl.gz" if self.compress else ".jsonl"
Ext(c) == IF c THEN ".jsonl.gz" ELSE ".jsonl"

\* The width of the format spec :04d.
PadWidth == 4

\* run_dir / f"publications_chunk_{k:04d}{ext}"
ChunkPath(k, c) == [stem |-> "publications_chunk_", index |-> ZeroPad(Digits(k), PadWidth), ext |-> Ext(c)]

\* ------------------------------------------------------------- records
\* The author record with the last zero-based index for the count.
AuthorRecordMiscount(a, n, c) == [id |-> a, publications_processed |-> IF n = 0 THEN 0 ELSE n - 1, call |-> c]

\* The author summary record built at the top of add_author. "call" is the
\* number of the add_author call that built the record; it stands for the
\* record's processing_timestamp and tells two calls for one author apart.
AuthorRecord(a, n, c) == [id |-> a, publications_processed |-> n, call |-> c]

\* The publication record built in the loop for the pub_idx-th publication.
PubRecord(a, c, idx) == [author_id |-> a, sequence_number |-> idx, call |-> c]

RECURSIVE PubRecords(_, _, _)
PubRecords(a, c, n) == IF n = 0 THEN <<>> ELSE Append(PubRecords(a, c, n - 1), PubRecord(a, c, n))

\* ------------------------------------------------------------- construction
\* datetime.now().strftime("%Y%m%d_%H%M%S"): the reading cut to whole seconds.
Timestamp(tm) == tm \div TicksPerSecond

\* self.output_dir / f"run_{timestamp}"
RunDir(tm) == [stem |-> "run_", timestamp |-> Timestamp(tm)]

\* No other writer was constructed.
NoRun == [constructed |-> FALSE, run_dir |-> RunDir(0), compress |-> FALSE]

\* No DatasetQuery was constructed.
NoQuery == [op |-> "none"]

\* A DatasetQuery was constructed, and nothing was asked of it.
Constructed == [op |-> "init"]

NoSession ==
    /\ authors_exists = TRUE
    /\ q_authors_file = [found |-> FALSE]
    /\ publication_chunks = <<>>
    /\ query = NoQuery
    /\ visit = 0

\* No RunManager, no earlier session and no pipeline are part of the run.
NoListing == [op |-> "none"]
NoPipeline == [stage |-> "none"]

NothingElse ==
    /\ output_root = {}
    /\ listing = NoListing
    /\ twin = NoQuery
    /\ pipeline = NoPipeline

NewStats ==
    [total_authors |-> 0, total_publications |-> 0, pdfs_downloaded |-> 0,
     stonybrook_mentions_found |-> 0, summaries_generated |-> 0,
     start_time |-> 0, end_time |-> NoTime]

Init ==
    /\ chunk_size \in 1..MaxChunkSize
    /\ compress \in BOOLEAN
    /\ current_chunk = 0
    /\ records_in_chunk = 0
    /\ publications_file_path = ChunkPath(0, compress)
    /\ publication_files = <<ChunkPath(0, compress)>>
    /\ authors_file = [open |-> TRUE]
    /\ publications_file = [path |-> ChunkPath(0, compress), open |-> TRUE]
    /\ processing_stats = NewStats
    /\ authors_log = <<>>
    /\ chunk_files = [p \in {ChunkPath(0, compress)} |-> <<>>]
    /\ stats_file = NoFile
    /\ now = 0
    /\ pc = [t \in Workers |-> "idle"]
    /\ author_record = [t \in Workers |-> AuthorRecord(1, 0, 0)]
    /\ publications = [t \in Workers |-> 0]
    /\ pub_idx = [t \in Workers |-> 0]
    /\ submitted = <<>>
    /\ late = FALSE
    /\ calls = 0
    /\ resaved = FALSE
    /\ other_run = NoRun
    /\ NoSession
    /\ NothingElse

\* ------------------------------------------------------------- file system
\* open(path, "w"): creates the file, or truncates it when it exists.
OpenForWrite(files, path) == [p \in DOMAIN files \cup {path} |-> IF p = path THEN <<>> ELSE files[p]]

\* file_handle.write(line + "\n"); file_handle.flush()
AppendLine(files, path, rec) == [files EXCEPT ![path] = Append(@, rec)]

AllIdle == \A t \in Workers : pc[t] = "idle"

\* ------------------------------------------------------------- add_author
\* The statements in another order: the author line and the global stats
\* first, the loop over the publications after them.
NextStatementAuthorFirst(at, cond) ==
    CASE at = "call" -> "write_author"
      [] at = "loop" -> IF cond THEN "check" ELSE "idle"
      [] at = "check" -> IF cond THEN "rot_close" ELSE "write_pub"
      [] at = "rot_close" -> "rot_incr"
      [] at = "rot_incr" -> "rot_reset"
      [] at = "rot_reset" -> "rot_path"
      [] at = "rot_path" -> "rot_open"
      [] at = "rot_open" -> "rot_append"
      [] at = "rot_append" -> "write_pub"
      [] at = "write_pub" -> "incr"
      [] at = "incr" -> "loop"
      [] at = "write_author" -> "upd_authors"
      [] at = "upd_authors" -> "upd_pubs"
      [] at = "upd_pubs" -> "loop"

\* The order of the statements of add_author and _rotate_publications_file:
\* the statement that follows the one at label "at"; "cond" is the outcome of
\* the test at a loop head or an if.
NextStatement(at, cond) ==
    CASE at = "call" -> "loop"
      [] at = "loop" -> IF cond THEN "check" ELSE "write_author"
      [] at = "check" -> IF cond THEN "rot_close" ELSE "write_pub"
      [] at = "rot_close" -> "rot_incr"
      [] at = "rot_incr" -> "rot_reset"
      [] at = "rot_reset" -> "rot_path"
      [] at = "rot_path" -> "rot_open"
      [] at = "rot_open" -> "rot_append"
      [] at = "rot_append" -> "write_pub"
      [] at = "write_pub" -> "incr"
      [] at = "incr" -> "loop"
      [] at = "write_author" -> "upd_authors"
      [] at = "upd_authors" -> "upd_pubs"
      [] at = "upd_pubs" -> "idle"

RotationLabels == {"rot_close", "rot_incr", "rot_reset", "rot_path", "rot_open", "rot_append"}

Goto(t, cond) == pc' = [pc EXCEPT ![t] = NextStatement(IF pc[t] = "idle" THEN "call" ELSE pc[t], cond)]

\* Author ids matter to the writer only up to equality, so the k-th call is
\* given one of the first k ids: an id used before or one new id.
CallAuthors == {a \in Authors : a <= calls + 1}

\* The call itself: the arguments are bound and author_record is built.
AddAuthorBegin(t, most) ==
    /\ pc[t] = "idle"
    /\ calls < MaxCalls
    /\ \E a \in CallAuthors, n \in 0..most :
        /\ author_record' = [author_record EXCEPT ![t] = AuthorRecord(a, n, calls + 1)]
        /\ publications' = [publications EXCEPT ![t] = n]
        /\ submitted' = submitted \o PubRecords(a, calls + 1, n)
    /\ pub_idx' = [pub_idx EXCEPT ![t] = 0]
    /\ calls' = calls + 1
    /\ late' = (late \/ ~authors_file.open)
    /\ Goto(t, TRUE)
    /\ UNCHANGED <<outside, chunk_size, compress, writer, disk, now, resaved>>

\* for pub_idx, (pub, result) in enumerate(zip(publications, processing_results), 1)
LoopHead(t) ==
    /\ pc[t] = "loop"
    /\ pub_idx' = [pub_idx EXCEPT ![t] = IF @ < publications[t] THEN @ + 1 ELSE @]
    /\ Goto(t, pub_idx[t] < publications[t])
    /\ UNCHANGED <<outside, chunk_size, compress, writer, disk, now, author_record, publications, history>>

\* The rotation test with > for >=.
NeedsRotationOffByOne(count, size) == count > size

\* if self.records_in_chunk >= self.chunk_size
NeedsRotation(count, size) == count >= size

CheckChunk(t) ==
    /\ pc[t] = "check"
    /\ Goto(t, NeedsRotation(records_in_chunk, chunk_size))
    /\ UNCHANGED <<outside, chunk_size, compress, writer, disk, now, author_record, publications, pub_idx, history>>

\* _rotate_publications_file, one statement per step
RotateClose(t) ==
    /\ pc[t] = "rot_close"
    /\ publications_file' = [publications_file EXCEPT !.open = FALSE]
    /\ Goto(t, TRUE)
    /\ UNCHANGED <<outside, chunk_size, compress, current_chunk, records_in_chunk, publications_file_path,
                   publication_files, authors_file, processing_stats, disk, now,
                   author_record, publications, pub_idx, history>>

\* The rotation without self.current_chunk += 1.
RotateIncrementForgotten(t) ==
    /\ pc[t] = "rot_incr"
    /\ Goto(t, TRUE)
    /\ UNCHANGED <<outside, chunk_size, compress, writer, disk, now, author_record, publications, pub_idx, history>>

RotateIncrement(t) ==
    /\ pc[t] = "rot_incr"
    /\ current_chunk' = current_chunk + 1
    /\ Goto(t, TRUE)
    /\ UNCHANGED <<outside, chunk_size, compress, records_in_chunk, publications_file_path,
                   publication_files, authors_file, publications_file, processing_stats, disk, now,
                   author_record, publications, pub_idx, history>>

RotateReset(t) ==
    /\ pc[t] = "rot_reset"
    /\ records_in_chunk' = 0
    /\ Goto(t, TRUE)
    /\ UNCHANGED <<outside, chunk_size, compress, current_chunk, publications_file_path,
                   publication_files, authors_file, publications_file, processing_stats, disk, now,
                   author_record, publications, pub_idx, history>>

RotatePath(t) ==
    /\ pc[t] = "rot_path"
    /\ publications_file_path' = ChunkPath(current_chunk, compress)
    /\ Goto(t, TRUE)
    /\ UNCHANGED <<outside, chunk_size, compress, current_chunk, records_in_chunk,
                   publication_files, authors_file, publications_file, processing_stats, disk, now,
                   author_record, publications, pub_idx, history>>

RotateOpen(t) ==
    /\ pc[t] = "rot_open"
    /\ publications_file' = [path |-> publications_file_path, open |-> TRUE]
    /\ chunk_files' = OpenForWrite(chunk_files, publications_file_path)
    /\ Goto(t, TRUE)
    /\ UNCHANGED <<outside, chunk_size, compress, current_chunk, records_in_chunk, publications_file_path,
                   publication_files, authors_file, processing_stats, authors_log, stats_file, now,
                   author_record, publications, pub_idx, history>>

RotateAppend(t) ==
    /\ pc[t] = "rot_append"
    /\ publication_files' = Append(publication_files, publications_file_path)
    /\ Goto(t, TRUE)
    /\ UNCHANGED <<outside, chunk_size, compress, current_chunk, records_in_chunk, publications_file_path,
                   authors_file, publications_file, processing_stats, disk, now,
                   author_record, publications, pub_idx, history>>

\* self._write_json_line(self.publications_file, pub_record). A write to a
\* closed handle raises ValueError, which _write_json_line catches and prints:
\* nothing is written and the call goes on.
WritePublication(t) ==
    /\ pc[t] = "write_pub"
    /\ chunk_files' = IF publications_file.open
                      THEN AppendLine(chunk_files, publications_file.path,
                                      PubRecord(author_record[t].id, author_record[t].call, pub_idx[t]))
                      ELSE chunk_files
    /\ Goto(t, TRUE)
    /\ UNCHANGED <<outside, chunk_size, compress, writer, authors_log, stats_file, now,
                   author_record, publications, pub_idx, history>>

\* self.records_in_chunk += 1
CountRecord(t) ==
    /\ pc[t] = "incr"
    /\ records_in_chunk' = records_in_chunk + 1
    /\ Goto(t, TRUE)
    /\ UNCHANGED <<outside, chunk_size, compress, current_chunk, publications_file_path,
                   publication_files, authors_file, publications_file, processing_stats, disk, now,
                   author_record, publications, pub_idx, history>>

\* self._write_json_line(self.authors_file, author_record)
WriteAuthor(t) ==
    /\ pc[t] = "write_author"
    /\ authors_log' = IF authors_file.open THEN Append(authors_log, author_record[t]) ELSE authors_log
    /\ Goto(t, TRUE)
    /\ UNCHANGED <<outside, chunk_size, compress, writer, chunk_files, stats_file, now,
                   author_record, publications, pub_idx, history>>

\* self.processing_stats["total_authors"] += 1
UpdateTotalAuthors(t) ==
    /\ pc[t] = "upd_authors"
    /\ processing_stats' = [processing_stats EXCEPT !.total_authors = @ + 1]
    /\ Goto(t, TRUE)
    /\ UNCHANGED <<outside, chunk_size, compress, current_chunk, records_in_chunk, publications_file_path,
                   publication_files, authors_file, publications_file, disk, now,
                   author_record, publications, pub_idx, history>>

\* The last statement adding one per call instead of len(publications).
UpdateTotalPublicationsByOne(t) ==
    /\ pc[t] = "upd_pubs"
    /\ processing_stats' = [processing_stats EXCEPT !.total_publications = @ + 1]
    /\ Goto(t, TRUE)
    /\ UNCHANGED <<outside, chunk_size, compress, current_chunk, records_in_chunk, publications_file_path,
                   publication_files, authors_file, publications_file, disk, now,
                   author_record, publications, pub_idx, history>>

\* self.processing_stats["total_publications"] += len(publications); return
UpdateTotalPublications(t) ==
    /\ pc[t] = "upd_pubs"
    /\ processing_stats' = [processing_stats EXCEPT !.total_publications = @ + publications[t]]
    /\ Goto(t, TRUE)
    /\ UNCHANGED <<outside, chunk_size, compress, current_chunk, records_in_chunk, publications_file_path,
                   publication_files, authors_file, publications_file, disk, now,
                   author_record, publications, pub_idx, history>>

\* The statements of add_author after the call itself.
AddAuthorStep(t) ==
    \/ LoopHead(t)
    \/ CheckChunk(t)
    \/ RotateClose(t)
    \/ RotateIncrement(t)
    \/ RotateReset(t)
    \/ RotatePath(t)
    \/ RotateOpen(t)
    \/ RotateAppend(t)
    \/ WritePublication(t)
    \/ CountRecord(t)
    \/ WriteAuthor(t)
    \/ UpdateTotalAuthors(t)
    \/ UpdateTotalPublications(t)

\* ------------------------------------------------------------- finalization
\* close() that closes the authors handle only.
CloseForgetsChunk ==
    /\ AllIdle
    /\ authors_file' = [authors_file EXCEPT !.open = FALSE]
    /\ UNCHANGED <<outside, chunk_size, compress, current_chunk, records_in_chunk, publications_file_path,
                   publication_files, publications_file, processing_stats, disk, now, locals, history>>

\* close(): closes both handles; closing a closed file does nothing.
Close ==
    /\ AllIdle
    /\ authors_file' = [authors_file EXCEPT !.open = FALSE]
    /\ publications_file' = [publications_file EXCEPT !.open = FALSE]
    /\ UNCHANGED <<outside, chunk_size, compress, current_chunk, records_in_chunk, publications_file_path,
                   publication_files, processing_stats, disk, now, locals, history>>

\* The bytes of a file on disk: every line is flushed as it is written.
FileBytes(lines) == Len(lines) * LineBytes

RECURSIVE SumBytes(_, _)
SumBytes(files, paths) ==
    IF paths = <<>> THEN 0
    ELSE (IF Head(paths) \in DOMAIN files THEN FileBytes(files[Head(paths)]) ELSE 0)
         + SumBytes(files, Tail(paths))

\* round(x, 2) for x = num / den, in hundredths: to nearest, ties to even.
RoundHundredths(num, den) ==
    LET q == (num * 100) \div den
        r == (num * 100) % den
    IN  IF 2 * r < den THEN q
        ELSE IF 2 * r > den THEN q + 1
        ELSE IF q % 2 = 0 THEN q ELSE q + 1

\* _calculate_total_size: the authors file and every file of the manifest,
\* in MB rounded to two decimals (here: hundredths of a MB).
CalculateTotalSize ==
    RoundHundredths(FileBytes(authors_log) + SumBytes(chunk_files, publication_files), 1024 * 1024)

\* The document save_stats writes (metadata is fixed at construction).
FinalStats(stats) ==
    [ exists |-> TRUE,
      processing_stats |-> stats,
      files |-> [ authors |-> [stem |-> "authors", ext |-> Ext(compress)],
                  publications_chunks |-> publication_files,
                  total_chunks |-> Len(publication_files),
                  compression_enabled |-> compress,
                  chunk_size |-> chunk_size,
                  total_size_mb |-> CalculateTotalSize ] ]

\* FINALIZED: the stats are written and close() was called (the authors handle,
\* unlike the publications handle, is never opened again).
Finalized == stats_file # NoFile /\ ~authors_file.open

\* save_stats() with the fresh clock reading stored under start_time as well.
SaveStatsStampsStart ==
    /\ AllIdle
    /\ \E tm \in now..MaxClock :
        /\ now' = tm
        /\ processing_stats' = [processing_stats EXCEPT !.end_time = tm, !.start_time = tm]
    /\ stats_file' = FinalStats(processing_stats')
    /\ resaved' = (resaved \/ Finalized)
    /\ UNCHANGED <<outside, chunk_size, compress, current_chunk, records_in_chunk, publications_file_path,
                   publication_files, authors_file, publications_file, authors_log, chunk_files,
                   locals, submitted, late, calls>>

\* save_stats(): stamps end_time with a fresh clock reading and writes the
\* sidecar anew.
SaveStats ==
    /\ AllIdle
    /\ \E tm \in now..MaxClock :
        /\ now' = tm
        /\ processing_stats' = [processing_stats EXCEPT !.end_time = tm]
    /\ stats_file' = FinalStats(processing_stats')
    /\ resaved' = (resaved \/ Finalized)
    /\ UNCHANGED <<outside, chunk_size, compress, current_chunk, records_in_chunk, publications_file_path,
                   publication_files, authors_file, publications_file, authors_log, chunk_files,
                   locals, submitted, late, calls>>

\* ------------------------------------------------------------- I/O errors
\* file_handle.write or flush raises OSError (disk full, permission denied):
\* _write_json_line catches it, prints it and returns normally.
WritePublicationFails(t) ==
    /\ pc[t] = "write_pub"
    /\ publications_file.open
    /\ Goto(t, TRUE)
    /\ UNCHANGED <<outside, chunk_size, compress, writer, disk, now, author_record, publications, pub_idx, history>>

WriteAuthorFails(t) ==
    /\ pc[t] = "write_author"
    /\ authors_file.open
    /\ Goto(t, TRUE)
    /\ UNCHANGED <<outside, chunk_size, compress, writer, disk, now, author_record, publications, pub_idx, history>>

\* ------------------------------------------------------------- specifications
\* The pipelines: add_author is called by the coordinating thread only, one
\* call at a time; every write to the run directory succeeds.
Next ==
    \/ AddAuthorBegin(Coordinator, MaxPubs)
    \/ AddAuthorStep(Coordinator)
    \/ SaveStats
    \/ Close

Spec == Init /\ [][Next]_vars

\* The same callers on a file system whose writes may fail.
NextIOFault ==
    \/ Next
    \/ WritePublicationFails(Coordinator)
    \/ WriteAuthorFails(Coordinator)

SpecIOFault == Init /\ [][NextIOFault]_vars

\* Several workers call add_author on the one writer without coordination:
\* the statements of their calls interleave (add_author takes no lock).
NextConcurrent ==
    \/ \E t \in Workers : AddAuthorBegin(t, MaxOverlapPubs)
    \/ \E t \in Workers : AddAuthorStep(t)

SpecConcurrent == Init /\ [][NextConcurrent]_vars

\* ------------------------------------------------------------- run directories
\* A line that json.loads rejects (a partial write of an interrupted run).
Malformed == [malformed |-> TRUE]

\* A line that is empty after strip().
Blank == [blank |-> TRUE]

\* The display names of the authors, as sequences of characters.
AuthorName(a) == IF a % 2 = 1 THEN <<"A", "d", "a">> ELSE <<"a", "D", "A", "M">>

\* An author line as the reader sees it: the fields of author_record the
\* query operations look at; k tells two lines of one author apart (their
\* processing_timestamp).
AuthorLine(a, k) == [id |-> a, name |-> AuthorName(a), processing_timestamp |-> k]

\* A publication line as the reader sees it: the fields of pub_record the
\* query operations look at (found is processing.stonybrook_validation.found).
PublicationLine(k, a, y, f) ==
    [id |-> k, author_id |-> a, publication_year |-> y, found |-> f, pdf_downloaded |-> FALSE]

Years == 0..MaxYear

\* The k-th line of a chunk file of a queried run directory.
PublicationLines(k) ==
    {PublicationLine(k, a, y, f) : a \in Authors, y \in Years, f \in BOOLEAN} \cup {Malformed}

\* The k-th line of the authors file of a queried run directory.
AuthorLines(k) == {AuthorLine(a, k) : a \in Authors} \cup {Malformed, Blank}

\* The chunk index a zero-padded index was formatted from.
RECURSIVE FromDigits(_)
FromDigits(ds) == IF ds = <<>> THEN 0 ELSE FromDigits(SubSeq(ds, 1, Len(ds) - 1)) * 10 + ds[Len(ds)]

\* The lines of a run cut into chunk files of n lines, as the rotation does.
Chunked(lines, n, c) ==
    LET K == Max(1, CeilDiv(Len(lines), n))
    IN  [p \in {ChunkPath(i, c) : i \in 0..(K - 1)} |->
            LET k == FromDigits(p.index)
            IN  SubSeq(lines, k * n + 1, IF (k + 1) * n < Len(lines) THEN (k + 1) * n ELSE Len(lines))]

\* json.loads accepts the line.
WellFormed(line) == "malformed" \notin DOMAIN line

\* line.strip() is empty.
IsBlank(line) == "blank" \in DOMAIN line

SeqsUpTo(S, n) == UNION {[1..m -> S] : m \in 0..n}

\* The contents of the chunk files of a queried run directory, as one sequence
\* of lines: every line is a publication or malformed.
QueriedPublications ==
    {[k \in 1..Len(s) |->
         IF WellFormed(s[k]) THEN PublicationLine(k, s[k].author_id, s[k].publication_year, s[k].found)
         ELSE s[k]] : s \in SeqsUpTo(PublicationLines(0), MaxQueryPubs)}

\* The contents of the authors file of a queried run directory.
QueriedAuthors ==
    {[k \in 1..Len(s) |->
         IF WellFormed(s[k]) /\ ~IsBlank(s[k]) THEN AuthorLine(s[k].id, k) ELSE s[k]]
         : s \in SeqsUpTo(AuthorLines(0), MaxLogLines)}

\* ------------------------------------------------------------- discovery
\* The characters of a chunk file's name after the stem "publications_chunk_",
\* which all chunk files share, as code points: the digits of the index, then
\* the extension.
ExtCodes(ext) ==
    IF ext = ".jsonl" THEN <<46, 106, 115, 111, 110, 108>>
    ELSE <<46, 106, 115, 111, 110, 108, 46, 103, 122>>

NameCodes(p) == [i \in 1..Len(p.index) |-> 48 + p.index[i]] \o ExtCodes(p.ext)

\* s < t for two strings: the first character that differs decides, and a
\* proper prefix comes first.
RECURSIVE StrLess(_, _)
StrLess(s, t) ==
    IF s = <<>> THEN t # <<>>
    ELSE IF t = <<>> THEN FALSE
    ELSE IF Head(s) # Head(t) THEN Head(s) < Head(t)
    ELSE StrLess(Tail(s), Tail(t))

\* Path.__lt__ for two files of one directory: the names are compared.
PathLess(p, q) == StrLess(NameCodes(p), NameCodes(q))

\* run_dir.glob(pattern) for the chunk patterns: the chunk files of the run
\* directory, in the order the file system lists them (here: the order of
\* creation; sorted() makes the result independent of it). The directories
\* read here hold the chunks 0 .. n-1 of one writer.
GlobChunks == [i \in 1..Cardinality(DOMAIN chunk_files) |-> ChunkPath(i - 1, compress)]

\* _find_publication_chunks: sorted(chunks)
FindPublicationChunks == SortSeq(GlobChunks, PathLess)

\* The discovery that takes the authors file to be there.
FindAuthorsFileAssumed == [found |-> TRUE]

\* _find_authors_file: the first of authors.jsonl.gz, authors.jsonl that exists.
FindAuthorsFile == [found |-> authors_exists]

\* DatasetQuery(run_directory) on a run directory that exists.
Construct ==
    /\ query = NoQuery
    /\ q_authors_file' = FindAuthorsFile
    /\ publication_chunks' = FindPublicationChunks
    /\ query' = Constructed
    /\ UNCHANGED <<chunk_size, compress, writer, disk, now, locals, history, beyond,
                   authors_exists, visit>>

\* query_publications, the loop over self.publication_chunks: the next chunk
\* file is opened and read.
VisitChunk ==
    /\ query # NoQuery
    /\ visit < Len(publication_chunks)
    /\ visit' = visit + 1
    /\ UNCHANGED <<chunk_size, compress, writer, disk, now, locals, history, beyond,
                   authors_exists, q_authors_file, publication_chunks, query>>

\* The variables of the writer in the process of a reader: the writer's
\* process has ended, and a DatasetQuery reads none of them.
NoWriter ==
    /\ current_chunk = 0
    /\ records_in_chunk = 0
    /\ publications_file_path = ChunkPath(0, compress)
    /\ publication_files = <<ChunkPath(0, compress)>>
    /\ authors_file = [open |-> FALSE]
    /\ publications_file = [path |-> ChunkPath(0, compress), open |-> FALSE]
    /\ processing_stats = NewStats
    /\ stats_file = NoFile
    /\ now = 0
    /\ pc = [t \in Workers |-> "idle"]
    /\ author_record = [t \in Workers |-> AuthorRecord(1, 0, 0)]
    /\ publications = [t \in Workers |-> 0]
    /\ pub_idx = [t \in Workers |-> 0]
    /\ submitted = <<>>
    /\ late = FALSE
    /\ calls = 0
    /\ resaved = FALSE
    /\ other_run = NoRun

RECURSIVE Pow10(_)
Pow10(n) == IF n = 0 THEN 1 ELSE 10 * Pow10(n - 1)

\* The numbers of chunks of the runs whose files are discovered: small runs,
\* and, for the compressing writer of the parallel pipeline, the first run
\* whose last chunk index has more digits than the padding.
RunChunks(c) == (1..MaxRunChunks) \cup (IF c THEN {Pow10(PadWidth) + 1} ELSE {})

\* A run of one author whose publications fill k chunks of one record each.
InitDiscovery ==
    /\ chunk_size = 1
    /\ compress \in BOOLEAN
    /\ \E k \in RunChunks(compress) :
          chunk_files = Chunked([i \in 1..k |-> PublicationLine(i, 1, 0, FALSE)], 1, compress)
    /\ authors_log = <<AuthorLine(1, 1)>>
    /\ authors_exists = TRUE
    /\ q_authors_file = [found |-> FALSE]
    /\ publication_chunks = <<>>
    /\ query = NoQuery
    /\ visit = 0
    /\ NoWriter
    /\ NothingElse

NextDiscovery ==
    \/ Construct
    \/ VisitChunk

SpecDiscovery == InitDiscovery /\ [][NextDiscovery]_vars

\* ------------------------------------------------------------- reading
\* What an iteration gave: the records yielded, and whether it ended with an
\* exception.
Gave(recs, exc) == [yielded |-> recs, raised |-> exc]

\* read_jsonl_file: yields the records of the lines; an empty line is
\* skipped; json.loads raises on a malformed line, nothing catches it, and
\* the iteration ends there with the exception.
RECURSIVE ReadJsonlFile(_)
ReadJsonlFile(lines) ==
    IF lines = <<>> THEN Gave(<<>>, FALSE)
    ELSE IF IsBlank(Head(lines)) THEN ReadJsonlFile(Tail(lines))
    ELSE IF ~WellFormed(Head(lines)) THEN Gave(<<>>, TRUE)
    ELSE LET rest == ReadJsonlFile(Tail(lines))
         IN  Gave(<<Head(lines)>> \o rest.yielded, rest.raised)

\* A writer that opens every file with open(path, "w").
SinkPlain(c) == "text"

\* _initialize_files, _rotate_publications_file: the files are written
\* through gzip.open(path, "wt") when self.compress, else through open(path, "w").
Sink(c) == IF c THEN "gzip" ELSE "text"

\* read_jsonl_file: gzip.open(path, "rt") when the suffix is ".gz", else open(path, "r").
Opener(ext) == IF ext = ".jsonl.gz" THEN "gzip" ELSE "text"

\* The lines a file of the run gives when it is opened by its name: a file
\* read with another codec than the one it was written with raises
\* (BadGzipFile, UnicodeDecodeError) before the first line.
ReadFile(ext, lines) ==
    IF Opener(ext) = Sink(compress) THEN ReadJsonlFile(lines) ELSE Gave(<<>>, TRUE)

\* for chunk_file in self.publication_chunks: for record in read_jsonl_file(chunk_file)
RECURSIVE ReadChunks(_)
ReadChunks(paths) ==
    IF paths = <<>> THEN Gave(<<>>, FALSE)
    ELSE LET first == ReadFile(Head(paths).ext, chunk_files[Head(paths)])
         IN  IF first.raised THEN first
             ELSE LET rest == ReadChunks(Tail(paths))
                  IN  Gave(first.yielded \o rest.yielded, rest.raised)

\* str.lower() on the characters of the names.
LowerChar(ch) ==
    CASE ch = "A" -> "a"
      [] ch = "D" -> "d"
      [] ch = "M" -> "m"
      [] OTHER -> ch

Lower(str) == [i \in 1..Len(str) |-> LowerChar(str[i])]

\* part in str
Contains(str, part) ==
    \E i \in 0..(Len(str) - Len(part)) : SubSeq(str, i + 1, i + Len(part)) = part

\* The year test with >= for ==.
YearAtLeast(rec, year) == rec.publication_year >= year

\* lambda p: p.get("publication_year") == year
YearMatches(rec, year) == rec.publication_year = year

\* The mentions test that accepts every publication.
FoundAlways(rec) == TRUE

\* lambda p: p.get("processing", {}).get("stonybrook_validation", {}).get("found", False)
Found(rec) == rec.found

\* lambda p: p.get("processing", {}).get("pdf_downloaded", False)
PdfDownloaded(rec) == rec.pdf_downloaded

\* The filter_func arguments the operations pass: None, and the lambdas of
\* get_author_by_id, get_author_by_name, get_publications_by_year,
\* get_publications_with_stonybrook_mentions and get_statistics.
Everything == [kind |-> "None"]
IdIs(a) == [kind |-> "id", id |-> a]
NameIs(name) == [kind |-> "name", name |-> name]
NameContains(name) == [kind |-> "name_lower", name_lower |-> Lower(name)]
YearIs(year) == [kind |-> "publication_year", year |-> year]
HasMention == [kind |-> "found"]
HasPdf == [kind |-> "pdf_downloaded"]

\* not filter_func or filter_func(record)
Passes(filter_func, record) ==
    CASE filter_func.kind = "None" -> TRUE
      [] filter_func.kind = "id" -> record.id = filter_func.id
      [] filter_func.kind = "name" -> record.name = filter_func.name
      [] filter_func.kind = "name_lower" -> Contains(Lower(record.name), filter_func.name_lower)
      [] filter_func.kind = "publication_year" -> YearMatches(record, filter_func.year)
      [] filter_func.kind = "found" -> Found(record)
      [] filter_func.kind = "pdf_downloaded" -> PdfDownloaded(record)

\* if not filter_func or filter_func(record): yield record
Filtered(gave, filter_func) ==
    Gave(SelectSeq(gave.yielded, LAMBDA record : Passes(filter_func, record)), gave.raised)

\* query_publications(filter_func), consumed to its end
PublicationsWhere(filter_func) == Filtered(ReadChunks(publication_chunks), filter_func)

\* Opening the authors file: open() raises when the file is not there.
ReadAuthorsFile == IF authors_exists THEN ReadFile(Ext(compress), authors_log) ELSE Gave(<<>>, TRUE)

\* query_authors(filter_func), consumed to its end: nothing when the
\* constructor found no authors file.
AuthorsWhere(filter_func) ==
    IF ~q_authors_file.found THEN Gave(<<>>, FALSE) ELSE Filtered(ReadAuthorsFile, filter_func)

\* The value None.
None == [none |-> TRUE]

\* get_author_by_id: the first record query_authors yields, returned at once
\* (the rest of the file is not read); None when the iteration ends.
AuthorById(a) ==
    LET gave == AuthorsWhere(IdIs(a))
    IN  IF gave.yielded # <<>> THEN [hit |-> TRUE, value |-> Head(gave.yielded), raised |-> FALSE]
        ELSE [hit |-> FALSE, value |-> None, raised |-> gave.raised]

\* get_author_by_name(name, exact)
AuthorsByName(name, exact) ==
    IF exact THEN AuthorsWhere(NameIs(name)) ELSE AuthorsWhere(NameContains(name))

\* get_publications_by_year(year)
PublicationsByYear(year) == PublicationsWhere(YearIs(year))

\* get_publications_with_stonybrook_mentions()
PublicationsWithMentions == PublicationsWhere(HasMention)

\* stonybrook_author_ids: the set of the author_id values of the records.
AuthorIds(recs) == {recs[i].author_id : i \in 1..Len(recs)}

\* The orders in which the elements of a set may be iterated.
Orders(S) == {order \in [1..Cardinality(S) -> S] : Range(order) = S}

\* for author_id in ...: author = self.get_author_by_id(author_id); if author: yield author
RECURSIVE LookupEach(_)
LookupEach(ids) ==
    IF ids = <<>> THEN [yielded |-> <<>>, raised |-> FALSE, lookups |-> 0]
    ELSE LET author == AuthorById(Head(ids))
         IN  IF author.raised THEN [yielded |-> <<>>, raised |-> TRUE, lookups |-> 1]
             ELSE LET rest == LookupEach(Tail(ids))
                  IN  [yielded |-> (IF author.hit THEN <<author.value>> ELSE <<>>) \o rest.yielded,
                       raised |-> rest.raised,
                       lookups |-> 1 + rest.lookups]

\* get_authors_with_stonybrook_mentions(), consumed to its end; the set of ids
\* is iterated in the given order. A publication scan that raises ends the
\* operation before anything is yielded.
AuthorsWithMentions(order) ==
    IF PublicationsWithMentions.raised
    THEN [yielded |-> <<>>, raised |-> TRUE, pub_scans |-> 1, lookups |-> 0]
    ELSE LookupEach(order) @@ [pub_scans |-> 1]

\* ------------------------------------------------------------- statistics
\* The length of the slice [:10].
TopN == 10

\* The keys of author_pub_counts in the order of insertion: the author ids of
\* the records in the order of their first appearance.
RECURSIVE FirstAppearance(_)
FirstAppearance(recs) ==
    IF recs = <<>> THEN <<>>
    ELSE LET before == FirstAppearance(SubSeq(recs, 1, Len(recs) - 1))
             a == recs[Len(recs)].author_id
         IN  IF a \in Range(before) THEN before ELSE Append(before, a)

\* author_pub_counts.items()
AuthorPubCounts(recs) ==
    LET ids == FirstAppearance(recs)
    IN  [i \in 1..Len(ids) |->
            [author_id |-> ids[i],
             publication_count |-> Len(SelectSeq(recs, LAMBDA rec : rec.author_id = ids[i]))]]

\* An insertion that puts the item before the items of the same count.
RECURSIVE InsertBeforeEqual(_, _)
InsertBeforeEqual(sorted, item) ==
    IF sorted = <<>> THEN <<item>>
    ELSE IF Head(sorted).publication_count > item.publication_count
         THEN <<Head(sorted)>> \o InsertBeforeEqual(Tail(sorted), item)
         ELSE <<item>> \o sorted

\* The item put into a list sorted by descending count, behind the items of
\* the same count.
RECURSIVE InsertByCount(_, _)
InsertByCount(sorted, item) ==
    IF sorted = <<>> THEN <<item>>
    ELSE IF Head(sorted).publication_count >= item.publication_count
         THEN <<Head(sorted)>> \o InsertByCount(Tail(sorted), item)
         ELSE <<item>> \o sorted

\* sorted(items, key=itemgetter(1), reverse=True): the sort is stable, also
\* with reverse=True, so items of the same count keep their order.
RECURSIVE SortedByCount(_)
SortedByCount(items) ==
    IF items = <<>> THEN <<>>
    ELSE InsertByCount(SortedByCount(SubSeq(items, 1, Len(items) - 1)), items[Len(items)])

\* sorted(...)[:10]
Top(items) == SubSeq(SortedByCount(items), 1, IF Len(items) < TopN THEN Len(items) ELSE TopN)

\* for author_id, count in top_authors: author = query.get_author_by_id(author_id);
\* if author: append the entry
RECURSIVE TopEntries(_)
TopEntries(items) ==
    IF items = <<>> THEN [entries |-> <<>>, raised |-> FALSE, lookups |-> 0]
    ELSE LET author == AuthorById(Head(items).author_id)
         IN  IF author.raised THEN [entries |-> <<>>, raised |-> TRUE, lookups |-> 1]
             ELSE LET rest == TopEntries(Tail(items))
                      entry == [author_id |-> Head(items).author_id,
                                name |-> author.value.name,
                                publication_count |-> Head(items).publication_count]
                  IN  [entries |-> (IF author.hit THEN <<entry>> ELSE <<>>) \o rest.entries,
                       raised |-> rest.raised,
                       lookups |-> 1 + rest.lookups]

\* years: the publication_year values that are not falsy.
YearsOf(recs) == {recs[i].publication_year : i \in 1..Len(recs)} \ {0}

\* sorted(years)
SortedYears(years) ==
    [i \in 1..Cardinality(years) |-> CHOOSE y \in years : Cardinality({z \in years : z < y}) = i - 1]

\* count_publications(filter_func): one scan of the chunk files.
CountPublications(filter_func) ==
    LET gave == PublicationsWhere(filter_func)
    IN  [value |-> Len(gave.yielded), raised |-> gave.raised, pub_scans |-> 1]

\* get_statistics(query) of data_query_lib/statistics.py: the counts in the
\* order in which the dict literal computes them, then the loop over
\* query_publications(), then the top authors. An exception ends the call.
Statistics(order) ==
    LET authors == AuthorsWhere(Everything)
        total == CountPublications(Everything)
        pdfs == CountPublications(HasPdf)
        mentions == CountPublications(HasMention)
        joined == AuthorsWithMentions(order)
        loop == CountPublications(Everything)
        recs == PublicationsWhere(Everything).yielded
        top == TopEntries(Top(AuthorPubCounts(recs)))
        Raised(scans, lookups) ==
            [raised |-> TRUE, value |-> None, pub_scans |-> scans, lookups |-> lookups]
    IN  IF authors.raised THEN Raised(0, 0)
        ELSE IF total.raised THEN Raised(total.pub_scans, 0)
        ELSE IF top.raised THEN
            Raised(total.pub_scans + pdfs.pub_scans + mentions.pub_scans + joined.pub_scans
                       + loop.pub_scans, joined.lookups + top.lookups)
        ELSE [raised |-> FALSE,
              value |-> [total_authors |-> Len(authors.yielded),
                         total_publications |-> total.value,
                         publications_with_pdfs |-> pdfs.value,
                         publications_with_stonybrook_mentions |-> mentions.value,
                         authors_with_stonybrook_mentions |-> Len(joined.yielded),
                         unique_years |-> SortedYears(YearsOf(recs)),
                         top_authors_by_publications |-> top.entries],
              pub_scans |-> total.pub_scans + pdfs.pub_scans + mentions.pub_scans
                                + joined.pub_scans + loop.pub_scans,
              lookups |-> joined.lookups + top.lookups]

\* ------------------------------------------------------------- query session
session == <<authors_exists, q_authors_file, publication_chunks, visit>>

\* The last operation of the session with its outcome: the records yielded,
\* whether it raised, the value returned, and the numbers of scans of the
\* chunk files and of get_author_by_id lookups it made.
Outcome(op, arg, recs, exc, val, scans, lookups) ==
    [op |-> op, arg |-> arg, yielded |-> recs, raised |-> exc, value |-> val,
     pub_scans |-> scans, lookups |-> lookups]

\* The operation opening the chunk files with open(path, "w").
AskedOpeningForWrite(outcome) ==
    /\ query = Constructed
    /\ query' = outcome
    /\ chunk_files' = [p \in DOMAIN chunk_files |-> <<>>]
    /\ UNCHANGED <<chunk_size, compress, writer, authors_log, stats_file, now, locals, history,
                   beyond, session>>

\* An operation is asked of the session. Every operation opens its own
\* scans and leaves the session as it is, so that the outcome of an operation
\* does not depend on the operations before it: a session is followed up to
\* its first operation. A later session on the run, or on its twin, is asked
\* what the earlier session was asked.
Asked(outcome) ==
    /\ query = Constructed
    /\ twin # NoQuery => (outcome.op = twin.op /\ outcome.arg = twin.arg)
    /\ query' = outcome
    /\ UNCHANGED <<chunk_size, compress, writer, disk, now, locals, history, beyond, session>>

QueryPublications ==
    LET gave == PublicationsWhere(Everything)
    IN  Asked(Outcome("query_publications", None, gave.yielded, gave.raised, None, 1, 0))

GetPublicationsByYear ==
    \E year \in 0..(MaxYear + 1) :
        LET gave == PublicationsByYear(year)
        IN  Asked(Outcome("get_publications_by_year", year, gave.yielded, gave.raised, None, 1, 0))

QueryAuthors ==
    LET gave == AuthorsWhere(Everything)
    IN  Asked(Outcome("query_authors", None, gave.yielded, gave.raised, None, 0, 0))

\* count_authors(): sum(1 for _ in self.query_authors(filter_func))
CountAuthors ==
    LET gave == AuthorsWhere(Everything)
    IN  Asked(Outcome("count_authors", None, <<>>, gave.raised,
                      IF gave.raised THEN None ELSE Len(gave.yielded), 0, 0))

GetAuthorById ==
    \E a \in Authors :
        LET author == AuthorById(a)
        IN  Asked(Outcome("get_author_by_id", a, <<>>, author.raised, author.value, 0, 1))

\* The names asked for.
QueryNames == {<<"a", "d", "a">>, <<"A", "d", "a">>, <<"d", "a", "m">>}

GetAuthorByName ==
    \E name \in QueryNames, exact \in BOOLEAN :
        LET gave == AuthorsByName(name, exact)
        IN  Asked(Outcome("get_author_by_name", <<name, exact>>, gave.yielded, gave.raised, None, 0, 0))

GetAuthorsWithStonybrookMentions ==
    \E order \in Orders(AuthorIds(PublicationsWithMentions.yielded)) :
        LET gave == AuthorsWithMentions(order)
        IN  Asked(Outcome("get_authors_with_stonybrook_mentions", None, gave.yielded, gave.raised,
                          None, gave.pub_scans, gave.lookups))

GetStatistics ==
    \E order \in Orders(AuthorIds(PublicationsWithMentions.yielded)) :
        LET stats == Statistics(order)
        IN  Asked(Outcome("get_statistics", None, <<>>, stats.raised, stats.value,
                          stats.pub_scans, stats.lookups))

\* write_jsonl_file(file_path, records, compress): the records are written as
\* they come and counted; an exception of the iterator ends the writing, the
\* finally clause closes the file with the lines written so far.
WriteJsonlFile(gave) ==
    [lines |-> gave.yielded, raised |-> gave.raised,
     returned |-> IF gave.raised THEN None ELSE [count |-> Len(gave.yielded)]]

\* The publication_filter arguments given to export_filtered_data.
ExportFilters == {Everything, HasMention} \cup {YearIs(year) : year \in Years}

\* export_filtered_data(query, output_file, publication_filter, compress):
\* the count write_jsonl_file returns is printed; the function has no return
\* statement, so the caller gets None.
ExportFilteredData ==
    \E publication_filter \in ExportFilters :
        LET wrote == WriteJsonlFile(PublicationsWhere(publication_filter))
        IN  Asked([output_file |-> wrote.lines, printed |-> wrote.returned]
                  @@ Outcome("export_filtered_data", publication_filter, <<>>, wrote.raised, None, 1, 0))

\* A run directory as it may be found: up to MaxQueryPubs publication lines in
\* chunks of chunk_size lines, any of them malformed; an authors file of up
\* to MaxLogLines lines, or none.
SmallRunDirectory ==
    /\ chunk_size \in 1..MaxChunkSize
    /\ compress \in BOOLEAN
    /\ \E lines \in QueriedPublications : chunk_files = Chunked(lines, chunk_size, compress)
    /\ authors_exists \in BOOLEAN
    /\ authors_log \in (IF authors_exists THEN QueriedAuthors ELSE {<<>>})

\* The authors that have publications beyond their first in a run of m authors.
ExtraAuthors(m) == {1, m - 1, m}

\* The run directory of a run of about TopN authors: one publication of each
\* author in turn, then up to MaxExtraPubs more; the authors file has a line
\* for every author, or for every author but one (the line of the last call
\* of an interrupted run is written after its publications).
ManyAuthorsRunDirectory ==
    /\ chunk_size = MaxChunkSize
    /\ compress = TRUE
    /\ \E m \in (TopN - 1)..(TopN + 1) :
        \E extra \in SeqsUpTo(ExtraAuthors(m), MaxExtraPubs), gone \in {0, 1, m} :
          /\ chunk_files =
                 Chunked([k \in 1..(m + Len(extra)) |->
                              PublicationLine(k, IF k <= m THEN k ELSE extra[k - m], 1, FALSE)],
                         MaxChunkSize, compress)
          /\ authors_log = SelectSeq([a \in 1..m |-> AuthorLine(a, a)], LAMBDA line : line.id # gone)
    /\ authors_exists = TRUE

InitQuery ==
    /\ SmallRunDirectory \/ ManyAuthorsRunDirectory
    /\ q_authors_file = [found |-> FALSE]
    /\ publication_chunks = <<>>
    /\ query = NoQuery
    /\ visit = 0
    /\ NoWriter
    /\ NothingElse

NextQuery ==
    \/ Construct
    \/ QueryPublications
    \/ GetPublicationsByYear
    \/ QueryAuthors
    \/ CountAuthors
    \/ GetAuthorById
    \/ GetAuthorByName
    \/ GetAuthorsWithStonybrookMentions
    \/ GetStatistics
    \/ ExportFilteredData

SpecQuery == InitQuery /\ [][NextQuery]_vars

\* ------------------------------------------------------------- run manager
\* run_dir.name of the run constructed in the given second.
RunName(sec) == [stem |-> "run_", timestamp |-> sec]

\* datetime.now().isoformat() as the code points of its characters: the
\* digits of the reading, zero-padded to one width.
IsoFormat(tm) ==
    LET ds == ZeroPad(Digits(tm), 2)
    IN  [i \in 1..Len(ds) |-> 48 + ds[i]]

\* The code points of "Unknown".
Unknown == <<85, 110, 107, 110, 111, 119, 110>>

\* A run_stats.json that json.load cannot parse.
Unparsable == [exists |-> TRUE, unparsable |-> TRUE]

\* The run_stats.json save_stats wrote: metadata.timestamp is the reading of
\* the constructor, processing_stats holds the counters.
Sidecar(tm, na, np) ==
    [exists |-> TRUE,
     metadata |-> [timestamp |-> IsoFormat(tm)],
     processing_stats |-> [total_authors |-> na, total_publications |-> np, start_time |-> IsoFormat(tm)]]

\* The sidecars a run directory may hold: none (the run ended before
\* save_stats), a damaged one, that of an empty run, that of a run with data.
Sidecars(sec) == {NoFile, Unparsable, Sidecar(sec, 0, 0), Sidecar(sec, 1, 2)}

\* metadata = {}
NoMetadata == [key \in {} |-> 0]

\* An exception inside "with suppress(Exception)" that goes on out of it.
NotSuppressed(exc) == exc

\* with suppress(Exception): no exception of the block leaves it.
Suppressed(exc) == FALSE

\* The sidecar of one run read: metadata stays {} when the file is missing
\* or json.load raises; else it is stats["metadata"] updated with
\* stats["processing_stats"].
ReadStats(sidecar) ==
    IF ~sidecar.exists THEN [metadata |-> NoMetadata, raised |-> FALSE]
    ELSE IF "unparsable" \in DOMAIN sidecar THEN [metadata |-> NoMetadata, raised |-> Suppressed(TRUE)]
    ELSE [metadata |-> sidecar.processing_stats @@ sidecar.metadata, raised |-> FALSE]

\* metadata.get(key, default)
Get(metadata, key, default) == IF key \in DOMAIN metadata THEN metadata[key] ELSE default

\* The dict list_runs appends for a run directory.
RunEntry(run) ==
    LET metadata == ReadStats(run.sidecar).metadata
    IN  [run_name |-> run.run_name,
         created |-> Get(metadata, "timestamp", Unknown),
         total_authors |-> Get(metadata, "total_authors", 0),
         total_publications |-> Get(metadata, "total_publications", 0)]

\* An insertion that puts the entry behind the entries created later or at
\* the same time, comparing "created" as strings.
RECURSIVE InsertByCreated(_, _)
InsertByCreated(sorted, entry) ==
    IF sorted = <<>> THEN <<entry>>
    ELSE IF StrLess(Head(sorted).created, entry.created)
         THEN <<entry>> \o sorted
         ELSE <<Head(sorted)>> \o InsertByCreated(Tail(sorted), entry)

\* sorted(runs, key=itemgetter("created"), reverse=True): a stable sort.
RECURSIVE SortedByCreated(_)
SortedByCreated(runs) ==
    IF runs = <<>> THEN <<>>
    ELSE InsertByCreated(SortedByCreated(SubSeq(runs, 1, Len(runs) - 1)), runs[Len(runs)])

\* list_runs(), the run directories globbed in the given order.
ListRunsIn(order) ==
    [value |-> SortedByCreated([i \in 1..Len(order) |-> RunEntry(order[i])]),
     raised |-> \E i \in 1..Len(order) : ReadStats(order[i].sidecar).raised]

\* The outcome of an operation of the RunManager.
Listed(op, arg, val, exc) == [op |-> op, arg |-> arg, value |-> val, raised |-> exc]

\* An operation of the RunManager leaves everything but its outcome as it is.
Managed(outcome) ==
    /\ listing' = outcome
    /\ UNCHANGED <<chunk_size, compress, writer, disk, now, locals, history,
                   other_run, output_root, twin, pipeline, reader>>

ListRuns ==
    \E order \in Orders(output_root) :
        LET runs == ListRunsIn(order)
        IN  Managed(Listed("list_runs", None, IF runs.raised THEN None ELSE runs.value, runs.raised))

\* get_latest_run(): a DatasetQuery on runs[0]["run_directory"], None when
\* list_runs() is empty.
GetLatestRun ==
    \E order \in Orders(output_root) :
        LET runs == ListRunsIn(order)
        IN  Managed(Listed("get_latest_run", None,
                           IF runs.raised \/ runs.value = <<>> THEN None
                           ELSE [run_directory |-> runs.value[1].run_name],
                           runs.raised))

\* get_run(run_name): a DatasetQuery on the directory when it exists, else None.
GetRun ==
    \E sec \in 1..MaxRuns :
        Managed(Listed("get_run", RunName(sec),
                       IF \E run \in output_root : run.run_name = RunName(sec)
                       THEN [run_directory |-> RunName(sec)] ELSE None,
                       FALSE))

\* The output root: run directories created in different seconds, each with
\* one of the sidecars.
OutputRoots ==
    UNION {{{[run_name |-> RunName(sec), sidecar |-> sidecars[sec]] : sec \in secs} :
               sidecars \in {f \in [secs -> UNION {Sidecars(k) : k \in 1..MaxRuns}] :
                                \A sec \in secs : f[sec] \in Sidecars(sec)}} :
           secs \in SUBSET (1..MaxRuns)}

\* A RunManager on an output root; no writer runs and no run is queried.
InitRuns ==
    /\ chunk_size = 1
    /\ compress = TRUE
    /\ authors_log = <<>>
    /\ chunk_files = [p \in {ChunkPath(0, compress)} |-> <<>>]
    /\ NoSession
    /\ NoWriter
    /\ output_root \in OutputRoots
    /\ listing = NoListing
    /\ twin = NoQuery
    /\ pipeline = NoPipeline

NextRuns ==
    \/ ListRuns
    \/ GetLatestRun
    \/ GetRun

SpecRuns == InitRuns /\ [][NextRuns]_vars

\* ------------------------------------------------------------- sessions
\* The files of the run as the writer of the other compress setting names them.
Renamed(files, c) ==
    [p \in {[q EXCEPT !.ext = Ext(c)] : q \in DOMAIN files} |-> files[[p EXCEPT !.ext = Ext(compress)]]]

\* The session ends and another DatasetQuery is to be constructed: on the
\* same run directory (c = compress), or on the run directory that the same
\* add_author calls give with the other compress setting, which has the same
\* lines in files of the other extension, written through the other sink.
OpenAgain ==
    /\ query.op \notin {"none", "init"}
    /\ twin = NoQuery
    /\ twin' = [compress |-> compress] @@ query
    /\ query' = NoQuery
    /\ q_authors_file' = [found |-> FALSE]
    /\ publication_chunks' = <<>>
    /\ \E c \in BOOLEAN :
          /\ compress' = c
          /\ chunk_files' = IF c = compress THEN chunk_files ELSE Renamed(chunk_files, c)
    /\ UNCHANGED <<chunk_size, writer, authors_log, stats_file, now, locals, history,
                   other_run, registry, pipeline, authors_exists, visit>>

\* No writer runs, no engine is constructed, no batch is processed.
ReadersOnly ==
    /\ q_authors_file = [found |-> FALSE]
    /\ publication_chunks = <<>>
    /\ query = NoQuery
    /\ visit = 0
    /\ NoWriter
    /\ listing = NoListing
    /\ twin = NoQuery
    /\ pipeline = NoPipeline

\* The run directories of the sessions: the small ones with an authors file
\* of at most one line.
InitSessions ==
    /\ SmallRunDirectory
    /\ Len(authors_log) <= 1
    /\ output_root = {}
    /\ ReadersOnly

NextSessions ==
    \/ NextQuery
    \/ OpenAgain

SpecSessions == InitSessions /\ [][NextSessions]_vars

\* Sessions on a run directory of at most one publication and one author
\* line that lies, as the run of second 1, under the output root of a
\* RunManager.
InitReadOnly ==
    /\ SmallRunDirectory
    /\ chunk_size = 1
    /\ compress = TRUE
    /\ Cardinality(DOMAIN chunk_files) = 1
    /\ Len(authors_log) <= 1
    /\ output_root \in {root \in OutputRoots : \A run \in root : run.run_name = RunName(1)}
    /\ output_root # {}
    /\ ReadersOnly

NextReadOnly ==
    \/ NextSessions
    \/ NextRuns

SpecReadOnly == InitReadOnly /\ [][NextReadOnly]_vars

\* ------------------------------------------------------------- parallel pipeline
\* The result of processing the k-th publication of an author.
ResultOf(k) == [of |-> k]

\* A task submitted for an author; nothing fetched yet.
Submitted(a) ==
    [author |-> a, stage |-> "submitted", publications |-> <<>>, pending |-> {},
     processing_results |-> <<>>, returned |-> "pending"]

\* The same variables with another state of the pipeline.
Piped(next) ==
    /\ pipeline' = next
    /\ UNCHANGED <<chunk_size, compress, writer, disk, now, locals, history,
                   other_run, registry, twin, reader>>

\* The worker's task of the i-th author of the batch replaced.
WithWorker(i, w) == [pipeline EXCEPT !.workers[i] = w]

\* _process_single_author up to line 105: get_author_publications gives n
\* publications. With none the task returns None; an exception is caught
\* by the except of line 133, and the task returns None as well.
Fetch(i) ==
    /\ pipeline.stage = "batch"
    /\ pipeline.workers[i].stage = "submitted"
    /\ \E n \in 0..MaxPubs, raises \in BOOLEAN :
          Piped(WithWorker(i,
              IF raises \/ n = 0
              THEN [pipeline.workers[i] EXCEPT !.stage = "done", !.returned = "None"]
              ELSE [pipeline.workers[i] EXCEPT !.stage = "processing",
                                               !.publications = [k \in 1..n |-> k],
                                               !.pending = 1..n]))

\* The publications whose result may be appended next: with PDF download
\* enabled every publication is a task of pdf_executor and the results are
\* appended as the tasks complete (as_completed); without, the loop of
\* lines 127-129 processes them in order.
NextDone(w) ==
    IF pipeline.download_enabled THEN w.pending
    ELSE {k \in w.pending : \A j \in w.pending : k <= j}

\* processing_results.append(result), and after the last one
\* return (author, publications, processing_results)
PublicationDone(i) ==
    /\ pipeline.stage = "batch"
    /\ pipeline.workers[i].stage = "processing"
    /\ \E k \in NextDone(pipeline.workers[i]) :
          LET w == pipeline.workers[i]
              last == w.pending = {k}
          IN  Piped(WithWorker(i,
                  [w EXCEPT !.pending = @ \ {k},
                            !.processing_results = Append(@, ResultOf(k)),
                            !.stage = IF last THEN "done" ELSE @,
                            !.returned = IF last THEN "result" ELSE @]))

\* A test that takes every returned value for a result.
HasResultAlways(w) == TRUE

\* if result:
HasResult(w) == w.returned = "result"

\* _process_author_batch, the loop over as_completed(future_to_author): a
\* finished task is taken, and its result, if any, is appended to results.
Collect(i) ==
    /\ pipeline.stage = "batch"
    /\ pipeline.workers[i].stage = "done"
    /\ i \notin pipeline.collected
    /\ LET w == pipeline.workers[i]
       IN  Piped([pipeline EXCEPT
                     !.collected = @ \cup {i},
                     !.results = IF HasResult(w)
                                 THEN Append(@, [task |-> i, author |-> w.author, returned |-> w.returned,
                                                 publications |-> w.publications,
                                                 processing_results |-> w.processing_results])
                                 ELSE @])

\* The loop ends when every future was taken; the with block shuts the
\* executor down, and _process_author_batch returns results.
ReturnBatch ==
    /\ pipeline.stage = "batch"
    /\ pipeline.collected = DOMAIN pipeline.workers
    /\ Piped([pipeline EXCEPT !.stage = "returned"])

\* run_async, lines 247-249: self.exporter.add_author(author, publications,
\* processing_results) for the next entry of batch_results.
CallAddAuthor ==
    /\ pipeline.stage = "returned"
    /\ Len(pipeline.added) < Len(pipeline.results)
    /\ Piped([pipeline EXCEPT
                 !.added = Append(@, [running |-> {i \in DOMAIN pipeline.workers :
                                                     pipeline.workers[i].stage # "done"}]
                                     @@ pipeline.results[Len(@) + 1])])

\* A batch of up to MaxBatch authors is submitted to the executor; the
\* exporter and the readers are not part of the batch.
InitPipeline ==
    /\ chunk_size = 1
    /\ compress = TRUE
    /\ authors_log = <<>>
    /\ chunk_files = [p \in {ChunkPath(0, compress)} |-> <<>>]
    /\ NoSession
    /\ NoWriter
    /\ output_root = {}
    /\ listing = NoListing
    /\ twin = NoQuery
    /\ \E n \in 1..MaxBatch, download_enabled \in BOOLEAN :
          pipeline = [stage |-> "batch", download_enabled |-> download_enabled,
                      workers |-> [i \in 1..n |-> Submitted(i)],
                      collected |-> {}, results |-> <<>>, added |-> <<>>]

NextPipeline ==
    \/ \E i \in DOMAIN pipeline.workers : Fetch(i)
    \/ \E i \in DOMAIN pipeline.workers : PublicationDone(i)
    \/ \E i \in DOMAIN pipeline.workers : Collect(i)
    \/ ReturnBatch
    \/ CallAddAuthor

SpecPipeline == InitPipeline /\ [][NextPipeline]_vars

\* ------------------------------------------------------------- a run and its reader
\* The processing results the pipelines build for a publication, as far as
\* add_author looks at them: whether the PDF was downloaded, whether
\* stonybrook_validation.found is true, whether there is a summary. The
\* validation and the summary are made from the text of a downloaded PDF.
Results ==
    {result \in [pdf_downloaded : BOOLEAN, found : BOOLEAN, summary : BOOLEAN] :
        (result.found \/ result.summary) => result.pdf_downloaded}

\* pub_record with its "processing" part: the record of the idx-th
\* publication of the c-th call, as it is written and as the reader sees it.
PublicationRecord(a, c, idx, result) ==
    [pdf_downloaded |-> result.pdf_downloaded, summary |-> result.summary]
        @@ PublicationLine((c - 1) * (MaxPubs + 1) + idx, a, MaxYear, result.found)
        @@ PubRecord(a, c, idx)

\* The number of results that have the flag.
Tally(results, flag) == Cardinality({k \in 1..Len(results) : results[k][flag]})

\* pdfs_found, stonybrook_mentions, summaries_generated: the locals the loop
\* of add_author counts, whether or not the line was written.
SummaryStats(results) ==
    [pdfs_found |-> Tally(results, "pdf_downloaded"),
     stonybrook_mentions |-> Tally(results, "found"),
     summaries_generated |-> Tally(results, "summary")]

\* author_record after author_record.update(...)
AuthorSummary(a, c, results) ==
    SummaryStats(results) @@ AuthorRecord(a, Len(results), c) @@ AuthorLine(a, c)

\* The updates of self.processing_stats in the loop.
Counted(stats, result) ==
    [stats EXCEPT !.pdfs_downloaded = @ + (IF result.pdf_downloaded THEN 1 ELSE 0),
                  !.stonybrook_mentions_found = @ + (IF result.found THEN 1 ELSE 0),
                  !.summaries_generated = @ + (IF result.summary THEN 1 ELSE 0)]

\* What the loop of add_author reads and changes.
Exporter ==
    [current_chunk |-> current_chunk, records_in_chunk |-> records_in_chunk,
     publications_file_path |-> publications_file_path, publication_files |-> publication_files,
     publications_file |-> publications_file, chunk_files |-> chunk_files,
     processing_stats |-> processing_stats]

\* _rotate_publications_file as one step.
Rotated(w) ==
    LET path == ChunkPath(w.current_chunk + 1, compress)
    IN  [w EXCEPT !.current_chunk = @ + 1,
                  !.records_in_chunk = 0,
                  !.publications_file_path = path,
                  !.publications_file = [path |-> path, open |-> TRUE],
                  !.chunk_files = OpenForWrite(@, path),
                  !.publication_files = Append(@, path)]

\* The loop of add_author from the idx-th publication on; the writes whose
\* number is in failed raise, and _write_json_line swallows the exception.
RECURSIVE Streamed(_, _, _, _, _, _)
Streamed(w, a, c, results, idx, failed) ==
    IF idx > Len(results) THEN w
    ELSE LET r == IF NeedsRotation(w.records_in_chunk, chunk_size) THEN Rotated(w) ELSE w
             written == IF r.publications_file.open /\ idx \notin failed
                        THEN AppendLine(r.chunk_files, r.publications_file.path,
                                        PublicationRecord(a, c, idx, results[idx]))
                        ELSE r.chunk_files
         IN  Streamed([r EXCEPT !.chunk_files = written,
                                !.records_in_chunk = @ + 1,
                                !.processing_stats = Counted(@, results[idx])],
                      a, c, results, idx + 1, failed)

\* The writes of a call that fail: none, or one of them (0 is the author line).
Failures(faulty, n) == IF faulty THEN {{k} : k \in 0..n} ELSE {{}}

\* add_author(author, publications, processing_results) as the pipelines
\* call it: from the coordinating thread, one call after the other, before
\* save_stats and close, with one result for every publication.
AddAuthor(faulty) ==
    /\ AllIdle
    /\ query = NoQuery
    /\ stats_file = NoFile
    /\ authors_file.open
    /\ calls < MaxCalls
    /\ \E a \in CallAuthors, results \in SeqsUpTo(Results, MaxPubs) :
         \E failed \in Failures(faulty, Len(results)) :
           LET c == calls + 1
               w == Streamed(Exporter, a, c, results, 1, failed)
           IN  /\ current_chunk' = w.current_chunk
               /\ records_in_chunk' = w.records_in_chunk
               /\ publications_file_path' = w.publications_file_path
               /\ publication_files' = w.publication_files
               /\ publications_file' = w.publications_file
               /\ chunk_files' = w.chunk_files
               /\ authors_log' = IF 0 \in failed THEN authors_log
                                 ELSE Append(authors_log, AuthorSummary(a, c, results))
               /\ processing_stats' =
                      [w.processing_stats EXCEPT !.total_authors = @ + 1,
                                                 !.total_publications = @ + Len(results)]
               /\ submitted' = submitted \o [k \in 1..Len(results) |->
                                                 PublicationRecord(a, c, k, results[k])]
               /\ calls' = c
    /\ UNCHANGED <<chunk_size, compress, authors_file, stats_file, now, locals, late, resaved,
                   outside>>

\* The exporter of the parallel pipeline: compress=True.
InitAudit == Init /\ compress = TRUE

\* run_async and run_interactive after the authors: save_stats, then close
\* (the clock is left out: end_time is the reading of the construction);
\* a DatasetQuery is constructed on the finalized run.
Finalize ==
    \/ (query = NoQuery /\ stats_file = NoFile /\ SaveStats /\ now' = now)
    \/ (query = NoQuery /\ stats_file # NoFile /\ authors_file.open /\ Close)
    \/ (Finalized /\ Construct)

\* The run of a pipeline whose writes succeed, and its reader, asked once.
NextAudit ==
    \/ AddAuthor(FALSE)
    \/ Finalize
    \/ GetAuthorsWithStonybrookMentions
    \/ GetStatistics

SpecAudit == InitAudit /\ [][NextAudit]_vars

\* Every line handed to _write_json_line so far is in its file.
NoWriteFailed ==
    /\ Len(authors_log) = calls
    /\ Cardinality(UNION {Range(chunk_files[p]) : p \in DOMAIN chunk_files}) = Len(submitted)

\* The run of a pipeline in which a write may fail, once, and its reader.
NextAuditIOFault ==
    \/ AddAuthor(FALSE)
    \/ (NoWriteFailed /\ AddAuthor(TRUE))
    \/ Finalize
    \/ GetStatistics

SpecAuditIOFault == InitAudit /\ [][NextAuditIOFault]_vars

\* ------------------------------------------------------------- a second run
\* The run directory of this writer: named after the second of construction.
run_dir == RunDir(processing_stats.start_time)

\* StreamingDataExporter(output_dir, compress = c) is constructed a second
\* time under the same output root, at clock reading tm. In the same second
\* it gets the same run directory (mkdir(exist_ok=True) accepts the existing
\* one), and _initialize_files opens its authors file and its chunk 0 for
\* writing there: a file of that name is truncated.
ConstructOtherWriter ==
    /\ ~other_run.constructed
    /\ \E tm \in now..MaxClock, c \in BOOLEAN :
        /\ now' = tm
        /\ other_run' = [constructed |-> TRUE, run_dir |-> RunDir(tm), compress |-> c]
        /\ authors_log' = IF RunDir(tm) = run_dir /\ c = compress THEN <<>> ELSE authors_log
        /\ chunk_files' = IF RunDir(tm) = run_dir
                          THEN OpenForWrite(chunk_files, ChunkPath(0, c))
                          ELSE chunk_files
    /\ UNCHANGED <<chunk_size, compress, writer, stats_file, locals, history, reader,
                   registry, twin, pipeline>>

NextTwoRuns ==
    \/ Next
    \/ ConstructOtherWriter

SpecTwoRuns == Init /\ [][NextTwoRuns]_vars

\* ------------------------------------------------------------- properties
\* The lines of the chunk files at the given paths, one file after the other.
RECURSIVE ChunkLines(_)
ChunkLines(paths) ==
    IF paths = <<>> THEN <<>>
    ELSE (IF Head(paths) \in DOMAIN chunk_files THEN chunk_files[Head(paths)] ELSE <<>>)
         \o ChunkLines(Tail(paths))

\* The paths of the chunks with indices 0 .. k-1, in index order.
ChunkPaths(k) == [i \in 1..k |-> ChunkPath(i - 1, compress)]

\* Every publication record in the run directory.
AllPublicationRecords == UNION {Range(chunk_files[p]) : p \in DOMAIN chunk_files}

RECURSIVE SumProcessed(_)
SumProcessed(log) == IF log = <<>> THEN 0 ELSE Head(log).publications_processed + SumProcessed(Tail(log))

RECURSIVE CountLines(_)
CountLines(paths) ==
    IF paths = {} THEN 0
    ELSE LET p == CHOOSE q \in paths : TRUE
         IN  Len(chunk_files[p]) + CountLines(paths \ {p})

\* Between calls, on a run no add_author call was made on after close().
Quiescent == AllIdle /\ ~late

\* C1: between add_author calls that handed P publication records to a writer
\* with chunk size N, the run directory holds exactly max(1, ceil(P/N)) chunk
\* files, with indices 0, 1, ...; every chunk but the last holds N records, the
\* last holds the remainder, and the chunks read in index order are exactly
\* the records handed in, each once and in order.
C1_RotationBoundary ==
    Quiescent =>
        LET P == Len(submitted)
            K == Max(1, CeilDiv(P, chunk_size))
        IN  /\ DOMAIN chunk_files = Range(ChunkPaths(K))
            /\ publication_files = ChunkPaths(K)
            /\ \A i \in 1..(K - 1) : Len(chunk_files[ChunkPaths(K)[i]]) = chunk_size
            /\ Len(chunk_files[ChunkPaths(K)[K]]) = P - (K - 1) * chunk_size
            /\ ChunkLines(ChunkPaths(K)) = submitted

\* N + 1 records were written with N = 2, by two calls: two chunks.
C1_Witness ==
    /\ Quiescent
    /\ chunk_size = 2
    /\ Len(submitted) = 3
    /\ Cardinality(DOMAIN chunk_files) = 2
    /\ calls = 2

\* C2: between add_author calls, and so after save_stats and close, the sum of
\* publications_processed over the author log equals the number of
\* publication records in all chunk files.
C2_JoinConsistency ==
    Quiescent => SumProcessed(authors_log) = CountLines(DOMAIN chunk_files)

\* A finalized run of two authors and several chunks.
C2_Witness ==
    /\ Quiescent
    /\ Finalized
    /\ ~publications_file.open
    /\ Len(authors_log) = 2
    /\ SumProcessed(authors_log) >= 3
    /\ Cardinality(DOMAIN chunk_files) >= 2

\* C3: a call is past a write only when the line is in the file: a write that
\* fails with an I/O error ends the call (the error reaches the caller) and the
\* call does not go on to count the record or to update the stats.
C3_WriteErrorAborts ==
    ~late =>
        \A t \in Workers :
            /\ pc[t] = "incr" =>
                   PubRecord(author_record[t].id, author_record[t].call, pub_idx[t]) \in AllPublicationRecords
            /\ pc[t] \in {"upd_authors", "upd_pubs"} => author_record[t] \in Range(authors_log)

\* C4: when workers call add_author concurrently, the calls are serialized, so
\* that no chunk file receives more than chunk_size records, no path is in the
\* manifest twice, and outside a rotation the manifest has one path per chunk
\* index 0 .. current_chunk.
C4_SerializedAddAuthor ==
    /\ \A p \in DOMAIN chunk_files : Len(chunk_files[p]) <= chunk_size
    /\ \A i, j \in 1..Len(publication_files) : publication_files[i] = publication_files[j] => i = j
    /\ (\A t \in Workers : pc[t] \notin RotationLabels) => Len(publication_files) = current_chunk + 1

\* C5: once the run is finalized, no step creates, truncates or appends to the
\* author log or a chunk file, and the writer's handles, chunk state and
\* counters no longer change.
C5_FinalizedImmutable ==
    [][Finalized =>
          /\ UNCHANGED <<authors_log, chunk_files>>
          /\ UNCHANGED <<current_chunk, records_in_chunk, publications_file_path, publication_files,
                         authors_file, publications_file>>
          /\ processing_stats'.total_authors = processing_stats.total_authors
          /\ processing_stats'.total_publications = processing_stats.total_publications]_vars

\* A finalization step: a step of save_stats or close (no call is running and
\* none begins).
FinalizationStep == AllIdle /\ pc' = pc

\* The run was finalized after its last add_author call: the sidecar counts
\* every call made (each call adds one to total_authors).
FinalizedLast ==
    /\ Finalized
    /\ ~late
    /\ stats_file.processing_stats.total_authors = processing_stats.total_authors

WithoutRecomputed(doc) ==
    [doc EXCEPT !.processing_stats.end_time = NoTime, !.files.total_size_mb = 0]

Closed == ~authors_file.open /\ Quiescent

C8_AuthorAfterPublications ==
    /\ \A i \in 1..Len(authors_log) :
           \A k \in 1..authors_log[i].publications_processed :
               PubRecord(authors_log[i].id, authors_log[i].call, k) \in AllPublicationRecords
    /\ \A i, j \in 1..Len(authors_log) : authors_log[i].call = authors_log[j].call => i = j
    /\ Quiescent => Len(authors_log) = calls

\* In the middle of the second call, which has written one of its two
\* publications; the first author, with two publications, is in the log.
C8_Witness ==
    /\ pc[Coordinator] = "incr"
    /\ ~late
    /\ publications[Coordinator] = 2
    /\ pub_idx[Coordinator] = 1
    /\ Len(authors_log) = 1
    /\ authors_log[1].publications_processed = 2

\* C9 as stated: the author line of a call is written before the call's
\* publication lines: every publication record on disk has the author record
\* of its call in the author log.
C9_AuthorLineFirst ==
    \A rec \in AllPublicationRecords : \E i \in 1..Len(authors_log) : authors_log[i].call = rec.call

\* C9, amended: within one add_author call the publication lines are written
\* first and the author line after them: while the call is in its loop its
\* author record is not in the log, and once the author line is written it is
\* the last line of the log and all publication lines of the call are in the
\* chunk files.
C9_PublicationLinesFirst ==
    \A t \in Workers :
        /\ pc[t] \in {"loop", "check", "write_pub", "incr", "write_author"} \cup RotationLabels =>
               author_record[t] \notin Range(authors_log)
        /\ (pc[t] \in {"upd_authors", "upd_pubs"} /\ ~late) =>
               /\ authors_log # <<>>
               /\ authors_log[Len(authors_log)] = author_record[t]
               /\ \A k \in 1..publications[t] :
                      PubRecord(author_record[t].id, author_record[t].call, k) \in AllPublicationRecords

\* The author line of a call with two publications has just been written.
C9_Witness ==
    /\ pc[Coordinator] = "upd_authors"
    /\ ~late
    /\ publications[Coordinator] = 2
    /\ Len(authors_log) = 2

\* C10: outside a rotation, the manifest is the paths of the chunks
\* 0 .. current_chunk in index order, these are the chunk files of the run
\* directory, and the publications handle is on the chunk current_chunk; and
\* whenever the handle is opened, it is opened on a path that was not in the
\* run directory before, so no chunk is opened for writing a second time.
C10_ManifestContiguous ==
    /\ []((\A t \in Workers : pc[t] \notin RotationLabels) =>
            /\ publication_files = ChunkPaths(current_chunk + 1)
            /\ DOMAIN chunk_files = Range(publication_files)
            /\ publications_file.path = ChunkPath(current_chunk, compress)
            /\ publications_file_path = ChunkPath(current_chunk, compress))
    /\ [][(publications_file'.open /\ publications_file' # publications_file) =>
            publications_file'.path \notin DOMAIN chunk_files]_vars

\* After two rotations, between calls.
C10_Witness ==
    /\ AllIdle
    /\ current_chunk = 2
    /\ Len(chunk_files[ChunkPath(1, compress)]) = 1

\* The author records of the log with the given id.
AuthorLinesOf(a) == {i \in 1..Len(authors_log) : authors_log[i].id = a}

\* A completed run: finalized after its last add_author call.
CompletedRun == Quiescent /\ Finalized

\* C11: in a completed run every publication record's author_id is the id of
\* exactly one author record of the author log.
C11_OneAuthorPerPublication ==
    CompletedRun =>
        \A rec \in AllPublicationRecords : Cardinality(AuthorLinesOf(rec.author_id)) = 1

\* C12: between add_author calls total_authors is the number of lines of the
\* author log and total_publications is the number of lines of all chunks.
C12_CountersMatchFiles ==
    Quiescent =>
        /\ processing_stats.total_authors = Len(authors_log)
        /\ processing_stats.total_publications = CountLines(DOMAIN chunk_files)

\* Two calls, for an author with two publications and one with none, with
\* chunk size 1: two lines in the log, two in the chunks.
C12_Witness ==
    /\ Quiescent
    /\ chunk_size = 1
    /\ processing_stats.total_authors = 2
    /\ processing_stats.total_publications = 2
    /\ Len(authors_log) = 2
    /\ authors_log[2].publications_processed = 0
    /\ Cardinality(DOMAIN chunk_files) = 2

\* C13: another writer constructed under the same output root, at whatever
\* time, has a run directory of its own, and its construction creates or
\* truncates no file of this writer's run directory.
C13_RunDirectoriesDistinct ==
    /\ [](other_run.constructed => other_run.run_dir # run_dir)
    /\ [][~other_run.constructed /\ other_run'.constructed =>
            UNCHANGED <<authors_log, chunk_files>>]_vars

\* C16: the chunk files of a run of the writer are visited in index order
\* (sorting by filename gives index order), so a scan yields the records in
\* the order in which they were written.
C16_ChunksInIndexOrder ==
    query # NoQuery =>
        /\ publication_chunks = [i \in 1..Len(publication_chunks) |-> ChunkPath(i - 1, compress)]
        /\ \A i \in 1..Len(publication_chunks) : chunk_files[publication_chunks[i]][1].id = i

\* The lines of the chunk files of the run directory in the order in which
\* the writer wrote them: chunk after chunk in index order.
WrittenLines == ChunkLines(ChunkPaths(Cardinality(DOMAIN chunk_files)))

\* The records of the authors file.
AuthorRecordsOnDisk == SelectSeq(authors_log, LAMBDA line : WellFormed(line) /\ ~IsBlank(line))

\* C14: a scan that meets a malformed line skips it and yields every
\* well-formed record of the files, those after the malformed line included,
\* and does not end with an exception.
C14_MalformedLineSkipped ==
    /\ query.op = "query_publications" =>
           /\ ~query.raised
           /\ query.yielded = SelectSeq(WrittenLines, WellFormed)
    /\ (query.op = "query_authors" /\ authors_exists) =>
           /\ ~query.raised
           /\ query.yielded = AuthorRecordsOnDisk

\* The operations on the authors file C15 names.
AuthorOperations ==
    {"query_authors", "count_authors", "get_author_by_id", "get_author_by_name",
     "get_authors_with_stonybrook_mentions"}

\* C15: on a run directory without an authors file, query_authors and the
\* operations built on it raise nothing and give nothing: no record, None for
\* get_author_by_id, 0 for count_authors (get_authors_with_stonybrook_mentions
\* scans the chunk files first: for chunk files without a malformed line).
C15_MissingAuthorsFileIsEmpty ==
    (/\ ~authors_exists
     /\ query.op \in AuthorOperations
     /\ query.op = "get_authors_with_stonybrook_mentions" => \A line \in Range(WrittenLines) : WellFormed(line)) =>
        /\ ~query.raised
        /\ query.yielded = <<>>
        /\ query.op = "get_author_by_id" => query.value = None
        /\ query.op = "count_authors" => query.value = 0

\* Without an authors file, the authors of two publications with mentions
\* were looked up, and none was found.
C15_Witness ==
    /\ ~authors_exists
    /\ query.op = "get_authors_with_stonybrook_mentions"
    /\ query.lookups = 2
    /\ query.yielded = <<>>
    /\ ~query.raised

\* C17: get_publications_by_year(Y), on chunk files without a malformed line,
\* yields the records of the run with publication_year Y and no other, each
\* once, in the order written; none when no record has the year.
C17_YearFilterExact ==
    (query.op = "get_publications_by_year" /\ ~query.raised) =>
        LET out == query.yielded
            all == WrittenLines
        IN  /\ \A i \in 1..Len(out) : out[i] \in Range(all) /\ out[i].publication_year = query.arg
            /\ \A j \in 1..Len(all) :
                   all[j].publication_year = query.arg =>
                       Cardinality({i \in 1..Len(out) : out[i] = all[j]}) = 1
            /\ \A i, j \in 1..Len(out) : i < j => out[i].id < out[j].id

\* Two chunks of one record each: the first of another year, the second of
\* the year asked for.
C17_Witness ==
    /\ query.op = "get_publications_by_year"
    /\ query.arg = 1
    /\ Cardinality(DOMAIN chunk_files) = 2
    /\ Len(WrittenLines) = 2
    /\ Len(query.yielded) = 1
    /\ query.yielded[1].id = 2

\* The author ids of the publications with a mention.
MentionedIds == {line.author_id : line \in {l \in Range(WrittenLines) : l.found}}

\* C18: get_authors_with_stonybrook_mentions, on files without a malformed
\* line, makes one scan of the chunk files and then one get_author_by_id
\* lookup per distinct author id of a publication with a mention; it yields
\* records of the authors file, one per such id that the file has, and when
\* the ids of the file are unique, exactly the records with such an id.
C18_MentionsJoin ==
    (/\ query.op = "get_authors_with_stonybrook_mentions"
     /\ ~query.raised
     /\ \A line \in Range(authors_log) : WellFormed(line)) =>
        LET out == query.yielded
            log == AuthorRecordsOnDisk
        IN  /\ query.pub_scans = 1
            /\ query.lookups = Cardinality(MentionedIds)
            /\ \A i, j \in 1..Len(out) : out[i].id = out[j].id => i = j
            /\ Range(out) \subseteq Range(log)
            /\ {out[i].id : i \in 1..Len(out)} = {a \in MentionedIds : \E line \in Range(log) : line.id = a}
            /\ (\A i, j \in 1..Len(log) : log[i].id = log[j].id => i = j) =>
                   Range(out) = {line \in Range(log) : line.id \in MentionedIds}

\* Two publications with mentions, both of one author, whose record is the
\* second of two in the authors file: one lookup, one record.
C18_Witness ==
    /\ query.op = "get_authors_with_stonybrook_mentions"
    /\ ~query.raised
    /\ Len(WrittenLines) = 2
    /\ \A line \in Range(WrittenLines) : WellFormed(line) /\ line.found /\ line.author_id = 2
    /\ query.lookups = 1
    /\ query.yielded = <<AuthorLine(2, 2)>>
    /\ Len(authors_log) = 2

\* C19: one call of get_statistics scans the chunk files once.
C19_SingleScan ==
    (query.op = "get_statistics" /\ ~query.raised) => query.pub_scans = 1

\* a is ahead of b in the ranking of the authors of the records: more
\* publications, or as many and an earlier first publication.
Ahead(recs, a, b) ==
    LET Count(x) == Cardinality({i \in 1..Len(recs) : recs[i].author_id = x})
        First(x) == CHOOSE i \in 1..Len(recs) :
                        recs[i].author_id = x /\ \A j \in 1..(i - 1) : recs[j].author_id # x
    IN  Count(a) > Count(b) \/ (Count(a) = Count(b) /\ First(a) < First(b))

\* The authors with fewer than TopN authors ahead of them.
TopIds(recs) ==
    {a \in AuthorIds(recs) : Cardinality({b \in AuthorIds(recs) : Ahead(recs, b, a)}) < TopN}

\* The entries of a top list are in the order of the ranking, each with the
\* number of publications of its author.
RankedEntries(recs, top) ==
    /\ \A i, j \in 1..Len(top) : i < j => Ahead(recs, top[i].author_id, top[j].author_id)
    /\ \A i \in 1..Len(top) :
           top[i].publication_count = Cardinality({k \in 1..Len(recs) : recs[k].author_id = top[i].author_id})

\* C20 as stated: top_authors_by_publications has an entry for each of the
\* min(10, number of distinct author ids) authors with the most publications,
\* in descending order of count, ties in order of first appearance.
C20_TopAuthorsComplete ==
    (query.op = "get_statistics" /\ ~query.raised) =>
        LET top == query.value.top_authors_by_publications
            recs == WrittenLines
        IN  /\ Len(top) = (IF Cardinality(AuthorIds(recs)) < TopN THEN Cardinality(AuthorIds(recs)) ELSE TopN)
            /\ {top[i].author_id : i \in 1..Len(top)} = TopIds(recs)
            /\ RankedEntries(recs, top)

\* C20, amended: the entries are those of the min(10, distinct ids) authors
\* with the most publications that have a record in the authors file, in
\* descending order of count, ties in order of first appearance; an author of
\* the top 10 without a record has no entry, and no other author takes its
\* place.
C20_TopAuthorsKnown ==
    (query.op = "get_statistics" /\ ~query.raised) =>
        LET top == query.value.top_authors_by_publications
            recs == WrittenLines
        IN  /\ {top[i].author_id : i \in 1..Len(top)} =
                   {a \in TopIds(recs) : \E line \in Range(AuthorRecordsOnDisk) : line.id = a}
            /\ RankedEntries(recs, top)

\* Eleven authors, the last with three publications and the others with
\* one: the last author is first, the first nine follow in order of first
\* appearance, and the tenth has no entry.
C20_Witness ==
    /\ query.op = "get_statistics"
    /\ ~query.raised
    /\ Cardinality(AuthorIds(WrittenLines)) = TopN + 1
    /\ Len(query.value.top_authors_by_publications) = TopN
    /\ query.value.top_authors_by_publications[1].author_id = TopN + 1
    /\ query.value.top_authors_by_publications[1].publication_count = 3
    /\ query.value.top_authors_by_publications[2].author_id = 1
    /\ query.value.top_authors_by_publications[TopN].author_id = TopN - 1

\* The number of record lines in the chunk file with the highest index.
LinesInCurrentChunk ==
    LET last == ChunkPath(Cardinality(DOMAIN chunk_files) - 1, compress)
    IN  Len(chunk_files[last])

\* C28: in every writer state 0 <= records_in_chunk <= chunk_size, and
\* records_in_chunk is the number of record lines in the chunk file with the
\* highest index (one less between the write of a line and the statement
\* that counts it; within a rotation, once the new file is open); a rotation is under way only when the count had reached
\* chunk_size, and the count is 0 once the rotation has reset it.
C28_CountMatchesCurrentChunk ==
    LET at == pc[Coordinator]
    IN  /\ records_in_chunk \in 0..chunk_size
        /\ at \notin {"incr", "rot_path", "rot_open"} => records_in_chunk = LinesInCurrentChunk
        /\ at = "incr" => records_in_chunk + 1 = LinesInCurrentChunk
        /\ at \in {"rot_close", "rot_incr", "rot_reset"} => records_in_chunk = chunk_size
        /\ at \in {"rot_path", "rot_open", "rot_append"} => records_in_chunk = 0

\* C21: export_filtered_data writes to the output file the publication
\* records of the run that satisfy the predicate, no other, in scan order, and
\* returns the number of records it wrote.
C21_ExportReturnsCount ==
    (query.op = "export_filtered_data" /\ ~query.raised) =>
        /\ query.output_file = SelectSeq(WrittenLines, LAMBDA rec : Passes(query.arg, rec))
        /\ query.value # None
        /\ query.value = [count |-> Len(query.output_file)]

\* The run directory of the root with the given name.
RunNamed(name) == CHOOSE run \in output_root : run.run_name = name

\* The sidecar of the run is missing or cannot be parsed.
Degraded(run) == ~run.sidecar.exists \/ "unparsable" \in DOMAIN run.sidecar

\* C22: list_runs raises nothing and lists every run directory of the output
\* root once: a run whose run_stats.json is missing or cannot be parsed with
\* created "Unknown" and totals 0, every other run with the timestamp and the
\* totals of its own sidecar.
C22_ListingSurvivesBadSidecar ==
    listing.op = "list_runs" =>
        /\ ~listing.raised
        /\ Len(listing.value) = Cardinality(output_root)
        /\ \A run \in output_root :
               \E i \in 1..Len(listing.value) :
                   LET entry == listing.value[i]
                   IN  /\ entry.run_name = run.run_name
                       /\ Degraded(run) =>
                              /\ entry.created = Unknown
                              /\ entry.total_authors = 0
                              /\ entry.total_publications = 0
                       /\ ~Degraded(run) =>
                              /\ entry.created = run.sidecar.metadata.timestamp
                              /\ entry.total_authors = run.sidecar.processing_stats.total_authors
                              /\ entry.total_publications = run.sidecar.processing_stats.total_publications

\* Three runs are listed: one without a sidecar, one with a damaged sidecar
\* and one with the sidecar of a run of one author and two publications.
C22_Witness ==
    /\ listing.op = "list_runs"
    /\ ~listing.raised
    /\ Len(listing.value) = 3
    /\ \E run \in output_root : ~run.sidecar.exists
    /\ \E run \in output_root : "unparsable" \in DOMAIN run.sidecar
    /\ \E i \in 1..3 : listing.value[i].total_publications = 2

\* C23: the runs are listed from the most recently created to the earliest
\* (a run directory is named after the second of its creation), and
\* get_latest_run gives the engine of the most recently created run
\* directory of the output root, None when the root has no run.
C23_LatestRunIsNewest ==
    /\ listing.op = "list_runs" =>
           \A i, j \in 1..Len(listing.value) :
               i < j => listing.value[i].run_name.timestamp > listing.value[j].run_name.timestamp
    /\ listing.op = "get_latest_run" =>
           IF output_root = {} THEN listing.value = None
           ELSE /\ listing.value # None
                /\ \A run \in output_root :
                       run.run_name.timestamp <= listing.value.run_directory.timestamp

\* The session was asked what the earlier session was asked.
AskedAgain == twin # NoQuery /\ query.op = twin.op /\ query.arg = twin.arg

\* The outcome of the earlier session, without the compress setting of its run.
EarlierOutcome == [field \in DOMAIN query |-> twin[field]]

\* The outcome is that of the earlier session: the same records in the same
\* order, the same value, the same exception or none. The join iterates a
\* set of ids, whose order is not fixed by the run: its records are compared
\* as a set.
SameResults ==
    IF query.op = "get_authors_with_stonybrook_mentions"
    THEN /\ Range(query.yielded) = Range(twin.yielded)
         /\ Len(query.yielded) = Len(twin.yielded)
         /\ query.raised = twin.raised
    ELSE query = EarlierOutcome

C25_SessionsReadOnly ==
    /\ [][compress' = compress =>
             UNCHANGED <<authors_log, chunk_files, stats_file, authors_exists, output_root>>]_vars
    /\ []((AskedAgain /\ twin.compress = compress) => SameResults)

\* After get_latest_run and two sessions that computed the statistics of the
\* run, the run directory holds its publication and its author line.
C25_Witness ==
    /\ AskedAgain
    /\ twin.compress = compress
    /\ query.op = "get_statistics"
    /\ ~query.raised
    /\ query.value.total_publications = 1
    /\ listing.op = "get_latest_run"
    /\ Len(authors_log) = 1
    /\ Len(WrittenLines) = 1

\* C26: the processing_results handed to add_author are parallel to the
\* publications: as many, and the i-th is the result of the i-th publication,
\* under every completion order of the per-publication tasks.
C26_ResultsParallelToPublications ==
    \A c \in 1..Len(pipeline.added) :
        LET call == pipeline.added[c]
        IN  /\ Len(call.processing_results) = Len(call.publications)
            /\ \A k \in 1..Len(call.publications) :
                   call.processing_results[k] = ResultOf(call.publications[k])

\* The tasks of the batch that returned a result.
WithResult == {i \in DOMAIN pipeline.workers : pipeline.workers[i].returned = "result"}

\* C27: add_author is called by the coordinating thread only, one result at
\* a time and after every task of the batch has finished; every author whose
\* task returned a result is passed exactly once, a task that raised or
\* returned nothing causes no call and does not stop the batch.
C27_CoordinatorAddsEachResultOnce ==
    /\ pipeline.added # <<>> =>
          /\ pipeline.stage = "returned"
          /\ \A i \in DOMAIN pipeline.workers : pipeline.workers[i].stage = "done"
    /\ \A c \in 1..Len(pipeline.added) :
          /\ pipeline.added[c].running = {}
          /\ pipeline.added[c].task \in WithResult
          /\ pipeline.added[c].author = pipeline.workers[pipeline.added[c].task].author
          /\ \A d \in 1..Len(pipeline.added) :
                 pipeline.added[c].task = pipeline.added[d].task => c = d
    /\ (pipeline.stage = "returned" /\ ~ENABLED CallAddAuthor) =>
          {pipeline.added[c].task : c \in 1..Len(pipeline.added)} = WithResult

\* Both tasks of a batch are done, one without a result; the other author was added.
C27_Witness ==
    /\ pipeline.stage = "returned"
    /\ Len(pipeline.added) = 1
    /\ ~ENABLED CallAddAuthor
    /\ \E i \in DOMAIN pipeline.workers : pipeline.workers[i].returned = "None"
\* The run is complete and get_statistics was asked of a reader on it.
AuditedBy(op) == Finalized /\ query # NoQuery /\ query.op = op

\* C29: for a completed run the counters of the sidecar agree with what
\* get_statistics computes from the files: total_authors, total_publications,
\* pdfs_downloaded and stonybrook_mentions_found equal total_authors,
\* total_publications, publications_with_pdfs and
\* publications_with_stonybrook_mentions.
C29_SidecarAgreesWithReader ==
    AuditedBy("get_statistics") =>
        /\ ~query.raised
        /\ stats_file.processing_stats.total_authors = query.value.total_authors
        /\ stats_file.processing_stats.total_publications = query.value.total_publications
        /\ stats_file.processing_stats.pdfs_downloaded = query.value.publications_with_pdfs
        /\ stats_file.processing_stats.stonybrook_mentions_found
               = query.value.publications_with_stonybrook_mentions

\* The publication records of the run that carry the author id.
PublicationRecordsOf(a) == {rec \in AllPublicationRecords : rec.author_id = a}

\* The sum of a field over the author records of the log.
RECURSIVE SumOver(_, _)
SumOver(lines, field) ==
    IF lines = <<>> THEN 0 ELSE Head(lines)[field] + SumOver(Tail(lines), field)

\* C30: for a completed run every author record's pdfs_found,
\* stonybrook_mentions and summaries_generated are the numbers of that
\* author's publication records with pdf_downloaded, with
\* stonybrook_validation.found and with a summary; so
\* get_authors_with_stonybrook_mentions yields exactly the authors whose
\* record has stonybrook_mentions > 0, and the aggregates sum to the counters
\* of the sidecar.
C30_AuthorAggregatesMatch ==
    Finalized =>
        /\ \A i \in 1..Len(authors_log) :
               LET own == PublicationRecordsOf(authors_log[i].id)
               IN  /\ authors_log[i].pdfs_found = Cardinality({rec \in own : rec.pdf_downloaded})
                   /\ authors_log[i].stonybrook_mentions = Cardinality({rec \in own : rec.found})
                   /\ authors_log[i].summaries_generated = Cardinality({rec \in own : rec.summary})
        /\ AuditedBy("get_authors_with_stonybrook_mentions") =>
               /\ ~query.raised
               /\ Range(query.yielded) = {line \in Range(authors_log) : line.stonybrook_mentions > 0}
        /\ SumOver(authors_log, "pdfs_found") = stats_file.processing_stats.pdfs_downloaded
        /\ SumOver(authors_log, "stonybrook_mentions")
               = stats_file.processing_stats.stonybrook_mentions_found
        /\ SumOver(authors_log, "summaries_generated")
               = stats_file.processing_stats.summaries_generated
====
